---- MODULE Spec2Model ----
(***************************************************************************)
(* A model of the drone_follow flight software: the four landing           *)
(* strategies (landing_protocols/), the tracking session of main.py and    *)
(* the hand-off of frames to the visualization thread.                     *)
(*                                                                         *)
(* Time is counted in periods of 50 ms: time.sleep(0.05) advances the      *)
(* clock by 1, time.sleep(0.1) by 2, time.sleep(0.3) by 6.  The timeouts   *)
(* are constructor parameters and are given small values.                  *)
(***************************************************************************)
EXTENDS Integers, Sequences, FiniteSets, TLC

VARIABLES
    \* ---- a landing strategy's land() call ----
    strategy,             \* which LandingProtocolBase subclass is called
    tracker_ok,           \* self.tracker and self.control_protocol are set
    frame_src,            \* a frame_read object is available to land()
    lpc,                  \* position inside land()
    finished,             \* the strategy's finished attribute
    sent,                 \* the calls the last step made on the actuator (tello)
    calls,                \* how many calls of each kind land() has made so far
    now,                  \* time.time()
    start_time,           \* start_time / landing_start_time of the running loop
    layer,                \* MultiLayerLanding: loop index of land()
    aligned_count,        \* MultiLayerLanding._align_on_pad local
    aligned,              \* MultiLayerLanding: result of _align_on_pad
    current_h,            \* MultiLayerLanding._descend_layer local
    current_phase,        \* PrecisionLandingProtocol.current_phase
    last_detection_time,  \* PrecisionLandingProtocol.last_detection_time
    pid,                  \* PrecisionLandingProtocol.position_pid's state
    tick,                 \* what the last loop iteration saw
    \* ---- TelloTargetFollower.run and the visualization thread ----
    spc,                  \* position of the control thread inside run()
    running,              \* TelloTargetFollower.running
    stream_on,            \* tello_connector.frame_read is set
    start,                \* _takeoff_and_stabilize local
    ascend_sent,          \* _takeoff_and_stabilize local
    landings,             \* how often landing_protocol.land() was invoked
    pubs,                 \* the number of the last publish to the thread
    vpc,                  \* position of the visualization thread inside run()
    vt_running,           \* VisualThread.running
    vt_frame,             \* VisualThread.frame: 0 (None) or a publish number
    vt_debug,             \* VisualThread.debug: 0 (None) or a publish number
    v_frame,              \* the evaluated first argument of show()
    shown,                \* the last pair passed to visual_protocol.show()
    \* ---- a control law object and ContinuousGlideLanding's speed law ----
    law,                  \* which law is called
    law_state,            \* the law's accumulated integrals and previous errors
    law_in,               \* the arguments of the last call
    law_out,              \* what the last call returned
    law_calls,            \* how many calls were made
    \* ---- the visual protocol's display, used by the control thread ----
    displayed,            \* _display_frame showed a frame in this tick
    \* ---- utils.tello_cleanup.safe_land ----
    slpc,                 \* position inside the innermost safe_land call
    sl_depth,             \* how many safe_land calls are on the stack
    sl_attempts,          \* how many tello.land() calls were made
    sl_state,             \* what the last check_drone_state call returned
    sl_slept,             \* the seconds safe_land has slept so far
    sl_result             \* what the outermost safe_land call gave back

\* the configuration land() is called with
cfgvars == <<strategy, tracker_ok, frame_src>>
\* MultiLayerLanding's locals
mlvars == <<layer, aligned_count, aligned, current_h>>
\* PrecisionLandingProtocol's attributes
plvars == <<current_phase, last_detection_time, pid>>

lvars == <<cfgvars, lpc, finished, sent, calls, now, start_time, mlvars, plvars, tick>>

\* TelloTargetFollower's attributes and locals
runvars == <<spc, running, stream_on, start, ascend_sent, landings, pubs>>
\* VisualThread's attributes and locals
vtvars == <<vpc, vt_running, vt_frame, vt_debug, v_frame, shown>>
svars == <<runvars, vtvars>>
\* what only a strategy's land() uses
lonly == <<strategy, tracker_ok, lpc, mlvars, plvars>>

\* a control law under call
cvars == <<law, law_state, law_in, law_out, law_calls>>

\* the display of the visual protocol
dvars == <<displayed>>

\* a safe_land call
uvars == <<slpc, sl_depth, sl_attempts, sl_state, sl_slept, sl_result>>

vars == <<lvars, svars, cvars, dvars, uvars>>

----------------------------------------------------------------------------
\* Bounds of the model (constructor parameters and input ranges).

\* MultiLayerLanding(layers=...)
Layers == 2
\* MultiLayerLanding(align_timeout=...), in periods
AlignTimeout == 3
\* MultiLayerLanding(aligned_frames_needed=...)
AlignedFramesNeeded == 1

\* MultiLayerLanding(layer_height=20)
layer_height == 20
\* MultiLayerLanding(align_threshold=12.0)
align_threshold == 12
\* the fixed safety margin of _descend_layer, in cm
SafetyMargin == 15

\* ProportionalControl(Kp=0.5, vmax=25): Kp = KpNum / KpDen
KpNum == 1
KpDen == 2
vmax == 25

\* (dx, dy) errors a tracker reports
Errors == {<<10, -4>>, <<150, 150>>}
\* tello.get_height() results in cm, tello.get_distance_tof() results in mm
Heights == {35, 60}
TofReadings == {350, 355}
\* tello.get_distance_tof() results ContinuousGlideLanding compares with
\* height_threshold
GlideTofReadings == {20, 21}
\* ContinuousGlideLanding(min_vz=10, max_vz=25, height_threshold=20.0)
min_vz == 10
max_vz == 25
height_threshold == 20
\* ContinuousGlideLanding(timeout=...), in periods
GlideTimeout == 2
\* PrecisionLandingProtocol(max_landing_time=...), in periods
MaxLandingTime == 4
\* PrecisionLandingProtocol.detection_timeout (2.0 s in __init__), in periods:
\* given a small value together with max_landing_time
DetectionTimeout == 2
\* PrecisionLandingProtocol(target_area_percentage=15.0, min_distance=20.0,
\* position_threshold=10.0)
target_area_percentage == 15
min_distance == 20
position_threshold == 10
\* np.radians(alignment_threshold=5.0) = 0.0872664..., in microradians
alignment_threshold == 87266
\* _initialize_pids: PIDControl(Kp=0.3, Ki=0.01, Kd=0.1, vmax=50), with
\* PIDControl's default integral_limit=100
pid_vmax == 50
integral_limit == 100
\* error data a precision tracker reports: error_x, error_y, yaw_error in
\* microradians, distance, area_percentage; or (dx, dy) of a basic tracker
PrecisionErrors == {<<0, 0, 0, 20, 15>>, <<50, 20, 1000000, 100, 5>>, <<5, -5>>}
\* lateral commands of the search circle and of the approach spiral
PatternCommands == {<<20, 0>>, <<-14, 14>>}
\* at most this many actuator calls of one land() raise
MaxFails == 2
\* the call counts are kept up to this value
MaxCount == 3

----------------------------------------------------------------------------
\* Values.

NoHeight == [known |-> FALSE, mm |-> 0]
HeightMm(v) == [known |-> TRUE, mm |-> v]

NoTick == [frame |-> FALSE, found |-> FALSE, error |-> <<0, 0>>]

\* check_drone_state: the state dictionary it starts from, returned as it is
\* when the drone does not answer
NoDroneState ==
    [connected |-> FALSE, battery |-> 0, motors_on |-> FALSE, flying |-> FALSE,
     height |-> 0, temperature |-> 0]

Rc(lr, fb, ud, yaw, ok) == [op |-> "rc", a |-> <<lr, fb, ud, yaw>>, ok |-> ok]
Land(ok) == [op |-> "land", a |-> <<>>, ok |-> ok]
Move(cm, ok) == [op |-> "move", a |-> <<cm>>, ok |-> ok]
Hover(ok) == Rc(0, 0, 0, 0, ok)

NoCalls == [rc |-> 0, land |-> 0, move |-> 0, raised |-> 0]

\* a count one higher; MaxCount stands for MaxCount or more
Bump(n, yes) == IF yes /\ n < MaxCount THEN n + 1 ELSE n

\* the counts after one more call
Counted(c, call) ==
    [rc     |-> Bump(c.rc, call.op = "rc"),
     land   |-> Bump(c.land, call.op = "land"),
     move   |-> Bump(c.move, call.op = "move"),
     raised |-> Bump(c.raised, ~call.ok)]

\* a step that makes one actuator call
Send(call) == sent' = <<call>> /\ calls' = Counted(calls, call)
\* a step that makes none
NoCall == sent' = <<>> /\ UNCHANGED calls

\* the outcomes an actuator call can have: it returns (TRUE) or raises (FALSE)
Outcomes == IF calls.raised < MaxFails THEN BOOLEAN ELSE {TRUE}

\* a sleep that returns at once
Sleep_stuck(t, d) == t
\* Python's time.sleep(d): the clock after sleeping d periods from t
Sleep(t, d) == t + d

\* Python's int() of the quotient n / d (d > 0): truncation toward zero
IntDiv(n, d) == IF n >= 0 THEN n \div d ELSE -((-n) \div d)

\* numpy.clip
Clip(v, lo, hi) == IF v < lo THEN lo ELSE IF v > hi THEN hi ELSE v

Abs(v) == IF v < 0 THEN -v ELSE v

\* ProportionalControl.compute_control: (vy, vx, 0, 0), with
\* vx = int(clip(-Kp * err_y, -vmax, vmax)), vy = int(clip(-Kp * err_x, ...)).
\* The clip bounds are integers, so clipping the scaled numerator and then
\* truncating the quotient gives int(clip(...)).
ProportionalAxis(e) == IntDiv(Clip(-KpNum * e, -vmax * KpDen, vmax * KpDen), KpDen)
compute_control(error) ==
    <<ProportionalAxis(error[1]), ProportionalAxis(error[2]), 0, 0>>

\* getattr(self.landing_protocol, "finished", True) of main.py
FinishedSeen == finished # "False"

Returned == lpc = "returned"
Raised == lpc = "raised"
LandingOver == Returned \/ Raised

----------------------------------------------------------------------------
\* SimpleLanding.land

\* try: tello.send_rc_control(0, 0, 0, 0)
SimpleStop ==
    /\ strategy = "simple" /\ lpc = "s_rc"
    /\ \E ok \in Outcomes :
          /\ Send(Hover(ok))
          /\ lpc' = IF ok THEN "s_land" ELSE "s_force"
    /\ UNCHANGED <<cvars, dvars, uvars, svars, cfgvars, finished, now, start_time, mlvars, plvars, tick>>

\* a land() that is sent twice
SimpleLand_twice ==
    /\ strategy = "simple" /\ lpc = "s_land"
    /\ sent' = <<Land(TRUE), Land(TRUE)>>
    /\ calls' = Counted(Counted(calls, Land(TRUE)), Land(TRUE))
    /\ lpc' = "returned"
    /\ UNCHANGED <<cvars, dvars, uvars, svars, cfgvars, finished, now, start_time, mlvars, plvars, tick>>
\* try: tello.land()
SimpleLand ==
    /\ strategy = "simple" /\ lpc = "s_land"
    /\ \E ok \in Outcomes :
          /\ Send(Land(ok))
          /\ lpc' = IF ok THEN "returned" ELSE "s_force"
    /\ UNCHANGED <<cvars, dvars, uvars, svars, cfgvars, finished, now, start_time, mlvars, plvars, tick>>

\* except Exception: try: tello.land() except: pass
SimpleForceLand ==
    /\ strategy = "simple" /\ lpc = "s_force"
    /\ \E ok \in Outcomes : Send(Land(ok))
    /\ lpc' = "returned"
    /\ UNCHANGED <<cvars, dvars, uvars, svars, cfgvars, finished, now, start_time, mlvars, plvars, tick>>

----------------------------------------------------------------------------
\* MultiLayerLanding

\* what tracker.process_frame(frame) does: a detection with its error, a miss,
\* or an exception
TrackerResults ==
    {[raised |-> FALSE, found |-> TRUE, error |-> e] : e \in Errors}
    \cup {[raised |-> FALSE, found |-> FALSE, error |-> <<0, 0>>],
          [raised |-> TRUE, found |-> FALSE, error |-> <<0, 0>>]}

\* what a sensor read does: a value, or an exception
SensorResults(values) ==
    {[ok |-> TRUE, v |-> x] : x \in values} \cup {[ok |-> FALSE, v |-> 0]}

\* _descend_layer: current_h = tello.get_height(), on an exception
\* tello.get_distance_tof() / 10.0, on an exception None.  Kept in mm so that
\* the division by 10.0 stays exact.
ReadAltitude(h, tof) ==
    IF h.ok THEN HeightMm(10 * h.v)
    ELSE IF tof.ok THEN HeightMm(tof.v)
    ELSE NoHeight

\* the comparison without the safety margin
AtSafeMargin_nomargin(h) == h.known /\ h.mm <= 10 * layer_height
\* _descend_layer: current_h is not None and current_h <= self.layer_height + 15
AtSafeMargin(h) == h.known /\ h.mm <= 10 * (layer_height + SafetyMargin)

\* MultiLayerLanding.is_stable_imu: disabled, always True
is_stable_imu == TRUE

\* _align_on_pad: abs(dx) < self.align_threshold and abs(dy) < self.align_threshold
WithinAlignThreshold(error) ==
    Abs(error[1]) < align_threshold /\ Abs(error[2]) < align_threshold

\* _align_on_pad: the count after a processed frame
AlignedCountAfter(count, found, error) ==
    IF found /\ WithinAlignThreshold(error) THEN count + 1 ELSE 0

\* the for loop of land(): the next layer, or the final land()
AfterLayer(l) == IF l + 1 < Layers THEN "m_align" ELSE "m_final"

\* _descend_layer returns: its locals and the loop's are gone, the for loop of
\* land() goes on
DescendReturns ==
    /\ layer' = layer + 1
    /\ lpc' = AfterLayer(layer)
    /\ aligned_count' = 0
    /\ aligned' = FALSE
    /\ current_h' = NoHeight
    /\ tick' = NoTick

\* land(): self.finished = False, then the first layer
MultiStart ==
    /\ strategy = "multilayer" /\ lpc = "m_start"
    /\ finished' = "False"
    /\ layer' = 0
    /\ lpc' = IF Layers > 0 THEN "m_align" ELSE "m_final"
    /\ NoCall
    /\ UNCHANGED <<cvars, dvars, uvars, svars, cfgvars, now, start_time, aligned_count, aligned,
                   current_h, plvars, tick>>

\* _align_on_pad up to its loop: without a frame source, tracker or control
\* law it sleeps align_timeout and reports aligned
MultiAlignBegin ==
    /\ strategy = "multilayer" /\ lpc = "m_align"
    /\ start_time' = now
    /\ aligned_count' = 0
    /\ IF ~frame_src \/ ~tracker_ok
         THEN /\ now' = Sleep(now, AlignTimeout)
              /\ aligned' = TRUE
              /\ lpc' = "m_desc_rc"
         ELSE /\ lpc' = "m_align_loop"
              /\ UNCHANGED <<now, aligned>>
    /\ NoCall
    /\ UNCHANGED <<cvars, dvars, uvars, svars, cfgvars, finished, layer, current_h, plvars, tick>>

\* the while condition fails: alignment timeout, return False
MultiAlignTimeout ==
    /\ strategy = "multilayer" /\ lpc = "m_align_loop"
    /\ ~(now - start_time < AlignTimeout)
    /\ aligned' = FALSE
    /\ lpc' = "m_desc_rc"
    /\ NoCall
    /\ UNCHANGED <<cvars, dvars, uvars, svars, cfgvars, finished, now, start_time, layer,
                   aligned_count, current_h, plvars, tick>>

\* a loop iteration with frame_read.frame None: sleep(0.05), continue
MultiAlignNoFrame ==
    /\ strategy = "multilayer" /\ lpc = "m_align_loop"
    /\ now - start_time < AlignTimeout
    /\ now' = Sleep(now, 1)
    /\ tick' = NoTick
    /\ NoCall
    /\ UNCHANGED <<cvars, dvars, uvars, svars, cfgvars, lpc, finished, start_time, mlvars, plvars>>

\* a loop iteration with a frame: the tracker runs (an exception counts as a
\* miss), one velocity command is sent, the consecutive count is updated
MultiAlignTick ==
    /\ strategy = "multilayer" /\ lpc = "m_align_loop"
    /\ now - start_time < AlignTimeout
    /\ \E r \in TrackerResults, ok \in Outcomes :
          LET rc == compute_control(r.error)
              count == AlignedCountAfter(aligned_count, r.found, r.error)
          IN  /\ tick' = [frame |-> TRUE, found |-> r.found, error |-> r.error]
              /\ Send(IF r.found THEN Rc(rc[1], rc[2], 0, rc[4], ok) ELSE Hover(ok))
              /\ IF ~ok
                   THEN /\ lpc' = "raised"
                        /\ UNCHANGED <<now, aligned_count, aligned>>
                   ELSE /\ aligned_count' = count
                        /\ IF count >= AlignedFramesNeeded
                             THEN /\ aligned' = TRUE
                                  /\ lpc' = "m_desc_rc"
                                  /\ now' = now
                             ELSE /\ now' = Sleep(now, 2)
                                  /\ UNCHANGED <<lpc, aligned>>
    /\ UNCHANGED <<cvars, dvars, uvars, svars, cfgvars, finished, start_time, layer, current_h, plvars>>

\* _descend_layer: tello.send_rc_control(0, 0, 0, 0), outside the try
MultiDescendStop ==
    /\ strategy = "multilayer" /\ lpc = "m_desc_rc"
    /\ \E ok \in Outcomes :
          /\ Send(Hover(ok))
          /\ IF ok THEN lpc' = "m_desc_height" /\ now' = Sleep(now, 2)
                   ELSE lpc' = "raised" /\ now' = now
    /\ UNCHANGED <<cvars, dvars, uvars, svars, cfgvars, finished, start_time, mlvars, plvars, tick>>

\* _descend_layer: the altitude read and the choice it makes
MultiReadHeight ==
    /\ strategy = "multilayer" /\ lpc = "m_desc_height"
    /\ \E h \in SensorResults(Heights), tof \in SensorResults(TofReadings) :
          LET read == ReadAltitude(h, tof)
          IN  IF AtSafeMargin(read)
                THEN /\ lpc' = "m_desc_land"
                     /\ current_h' = read
                     /\ UNCHANGED <<now, layer, aligned_count, aligned, tick>>
                ELSE IF is_stable_imu
                       THEN /\ lpc' = "m_desc_move"
                            /\ current_h' = read
                            /\ UNCHANGED <<now, layer, aligned_count, aligned, tick>>
                       ELSE /\ now' = Sleep(now, 20)
                            /\ DescendReturns
    /\ NoCall
    /\ UNCHANGED <<cvars, dvars, uvars, svars, cfgvars, finished, start_time, plvars>>

\* _descend_layer: tello.land(); self.finished = True; return
MultiDirectLand ==
    /\ strategy = "multilayer" /\ lpc = "m_desc_land"
    /\ \E ok \in Outcomes :
          /\ Send(Land(ok))
          /\ IF ok THEN /\ finished' = "True"
                        /\ DescendReturns
                   ELSE /\ lpc' = "m_desc_except"
                        /\ UNCHANGED <<finished, mlvars, tick>>
    /\ UNCHANGED <<cvars, dvars, uvars, svars, cfgvars, now, start_time, plvars>>

\* _descend_layer: tello.move("down", self.layer_height), then sleep(0.3)
MultiMoveDown ==
    /\ strategy = "multilayer" /\ lpc = "m_desc_move"
    /\ \E ok \in Outcomes :
          /\ Send(Move(layer_height, ok))
          /\ IF ok THEN /\ now' = Sleep(now, 6)
                        /\ DescendReturns
                   ELSE /\ lpc' = "m_desc_except"
                        /\ UNCHANGED <<now, mlvars, tick>>
    /\ UNCHANGED <<cvars, dvars, uvars, svars, cfgvars, finished, start_time, plvars>>

\* _descend_layer: except Exception: try: tello.land() except: log
MultiDescendExcept ==
    /\ strategy = "multilayer" /\ lpc = "m_desc_except"
    /\ \E ok \in Outcomes : Send(Land(ok))
    /\ now' = Sleep(now, 6)
    /\ DescendReturns
    /\ UNCHANGED <<cvars, dvars, uvars, svars, cfgvars, finished, start_time, plvars>>

\* land(): try: tello.land() except: log; self.finished = True
MultiFinalLand ==
    /\ strategy = "multilayer" /\ lpc = "m_final"
    /\ \E ok \in Outcomes : Send(Land(ok))
    /\ finished' = "True"
    /\ lpc' = "returned"
    /\ UNCHANGED <<cvars, dvars, uvars, svars, cfgvars, now, start_time, mlvars, plvars, tick>>

----------------------------------------------------------------------------
\* ContinuousGlideLanding

\* the least k in 0..d with (100 k)^2 >= d^2 * sq, that is ceil(d * sqrt(sq) / 100)
CeilScaledRoot(d, sq) ==
    CHOOSE k \in 0..d : /\ 10000 * k * k >= d * d * sq
                        /\ \A m \in 0..d : 10000 * m * m >= d * d * sq => k <= m

\* _compute_descent_speed: mag = hypot(dx, dy); normalised = max(0, 1 - mag/100);
\* -int(min_vz + (max_vz - min_vz) * normalised).  For min_vz <= max_vz the
\* int() of min_vz + d * (1 - mag/100) is max_vz - ceil(d * mag / 100).
\* lost stands for the error (inf, inf) land() passes when the target is lost:
\* normalised is then max(0, -inf) = 0.
compute_descent_speed(error, lost) ==
    LET sq == error[1] * error[1] + error[2] * error[2]
    IN  IF lost \/ sq >= 10000
          THEN -min_vz
          ELSE -(max_vz - CeilScaledRoot(max_vz - min_vz, sq))

\* land(): without tracker or control law it sets finished and returns; else
\* self.finished = False, start_time = time.time()
GlideStart ==
    /\ strategy = "glide" /\ lpc = "g_start"
    /\ IF ~tracker_ok
         THEN finished' = "True" /\ lpc' = "returned" /\ UNCHANGED start_time
         ELSE finished' = "False" /\ lpc' = "g_tick" /\ start_time' = now
    /\ NoCall
    /\ UNCHANGED <<cvars, dvars, uvars, svars, cfgvars, now, mlvars, plvars, tick>>

\* a loop iteration without a frame: tello.send_rc_control(0, 0, 0, 0)
GlideNoFrame ==
    /\ strategy = "glide" /\ lpc = "g_tick"
    /\ tick' = NoTick
    /\ \E ok \in Outcomes :
          /\ Send(Hover(ok))
          /\ lpc' = IF ok THEN "g_tof" ELSE "raised"
    /\ UNCHANGED <<cvars, dvars, uvars, svars, cfgvars, finished, now, start_time, mlvars, plvars>>

\* a loop iteration with a frame: the tracker runs (its exception is not
\* caught), rc is the control law's output or (0, 0, 0, 0), vz the descent speed
GlideTrack ==
    /\ strategy = "glide" /\ lpc = "g_tick"
    /\ frame_src
    /\ \E r \in TrackerResults :
          IF r.raised
            THEN /\ lpc' = "raised"
                 /\ NoCall
                 /\ UNCHANGED tick
            ELSE LET rc == IF r.found THEN compute_control(r.error) ELSE <<0, 0, 0, 0>>
                     vz == compute_descent_speed(r.error, ~r.found)
                 IN  \E ok \in Outcomes :
                        /\ tick' = [frame |-> TRUE, found |-> r.found, error |-> r.error]
                        /\ Send(Rc(rc[1], rc[2], vz, rc[4], ok))
                        /\ lpc' = IF ok THEN "g_tof" ELSE "raised"
    /\ UNCHANGED <<cvars, dvars, uvars, svars, cfgvars, finished, now, start_time, mlvars, plvars>>

\* try: height = tello.get_distance_tof(); if height <= self.height_threshold
GlideReadTof ==
    /\ strategy = "glide" /\ lpc = "g_tof"
    /\ \E t \in SensorResults(GlideTofReadings) :
          lpc' = IF t.ok /\ t.v <= height_threshold THEN "g_low_rc" ELSE "g_timeout"
    /\ NoCall
    /\ UNCHANGED <<cvars, dvars, uvars, svars, cfgvars, finished, now, start_time, mlvars, plvars, tick>>

\* inside that try: tello.send_rc_control(0, 0, 0, 0); an exception is caught
\* as a failed TOF read
GlideLowStop ==
    /\ strategy = "glide" /\ lpc = "g_low_rc"
    /\ \E ok \in Outcomes :
          /\ Send(Hover(ok))
          /\ lpc' = IF ok THEN "g_low_land" ELSE "g_timeout"
    /\ UNCHANGED <<cvars, dvars, uvars, svars, cfgvars, finished, now, start_time, mlvars, plvars, tick>>

\* inside that try: tello.land(); break; then self.finished = True
GlideLowLand ==
    /\ strategy = "glide" /\ lpc = "g_low_land"
    /\ \E ok \in Outcomes :
          /\ Send(Land(ok))
          /\ IF ok THEN finished' = "True" /\ lpc' = "returned"
                   ELSE lpc' = "g_timeout" /\ UNCHANGED finished
    /\ UNCHANGED <<cvars, dvars, uvars, svars, cfgvars, now, start_time, mlvars, plvars, tick>>

\* if time.time() - start_time > self.timeout, else time.sleep(0.05)
GlideCheckTimeout ==
    /\ strategy = "glide" /\ lpc = "g_timeout"
    /\ IF now - start_time > GlideTimeout
         THEN lpc' = "g_to_rc" /\ now' = now
         ELSE lpc' = "g_tick" /\ now' = Sleep(now, 1)
    /\ NoCall
    /\ UNCHANGED <<cvars, dvars, uvars, svars, cfgvars, finished, start_time, mlvars, plvars, tick>>

\* on timeout: tello.send_rc_control(0, 0, 0, 0), outside any try
GlideTimeoutStop ==
    /\ strategy = "glide" /\ lpc = "g_to_rc"
    /\ \E ok \in Outcomes :
          /\ Send(Hover(ok))
          /\ lpc' = IF ok THEN "g_to_land" ELSE "raised"
    /\ UNCHANGED <<cvars, dvars, uvars, svars, cfgvars, finished, now, start_time, mlvars, plvars, tick>>

\* on timeout: tello.land(); break; then self.finished = True
GlideTimeoutLand ==
    /\ strategy = "glide" /\ lpc = "g_to_land"
    /\ \E ok \in Outcomes :
          /\ Send(Land(ok))
          /\ IF ok THEN finished' = "True" /\ lpc' = "returned"
                   ELSE lpc' = "raised" /\ UNCHANGED finished
    /\ UNCHANGED <<cvars, dvars, uvars, svars, cfgvars, now, start_time, mlvars, plvars, tick>>

----------------------------------------------------------------------------
\* PrecisionLandingProtocol

PhaseRank(p) ==
    CASE p = "SEARCH" -> 0
      [] p = "ALIGN" -> 1
      [] p = "APPROACH" -> 2
      [] p = "TOUCHDOWN" -> 3

Never == [set |-> FALSE, t |-> 0]
At(t) == [set |-> TRUE, t |-> t]

\* _handle_target_detected: error_x, error_y, yaw_error, distance,
\* area_percentage of a 5-value error, or the fallback for a basic tracker
Unpack(error_data) ==
    IF Len(error_data) >= 5 THEN error_data
    ELSE <<error_data[1], error_data[2], 0, 100, 5>>

\* transitions that leave ALIGN on any detection
PhaseAfterDetection_unguarded(phase, e) ==
    CASE phase = "SEARCH" -> "ALIGN"
      [] phase = "ALIGN" -> "APPROACH"
      [] phase = "APPROACH" ->
            IF e[5] >= target_area_percentage /\ e[4] <= min_distance
              THEN "TOUCHDOWN" ELSE "APPROACH"
      [] OTHER -> phase
\* _handle_target_detected: the phase transitions
PhaseAfterDetection(phase, e) ==
    CASE phase = "SEARCH" -> "ALIGN"
      [] phase = "ALIGN" ->
            IF /\ Abs(e[1]) < position_threshold
               /\ Abs(e[2]) < position_threshold
               /\ Abs(e[3]) < alignment_threshold
              THEN "APPROACH" ELSE "ALIGN"
      [] phase = "APPROACH" ->
            IF e[5] >= target_area_percentage /\ e[4] <= min_distance
              THEN "TOUCHDOWN" ELSE "APPROACH"
      [] OTHER -> phase

\* back to SEARCH on any miss after a detection
PhaseAfterMiss_eager(phase, ldt, t) == IF ldt.set THEN "SEARCH" ELSE phase
\* _handle_no_target: back to SEARCH once the target has been lost for longer
\* than detection_timeout
PhaseAfterMiss(phase, ldt, t) ==
    IF ldt.set /\ t - ldt.t > DetectionTimeout THEN "SEARCH" ELSE phase

\* PIDControl(Kp=0.3, Ki=0.01, Kd=0.1, vmax=50).compute_control with dt = 0.07,
\* one axis.  The integral is kept in hundredths (i100 = 100 * integral), so
\* the update integral + err * 0.07 is i100 + 7 * err, clipped to
\* +-integral_limit.
PidIntegral(i100, e) == Clip(i100 + 7 * e, -100 * integral_limit, 100 * integral_limit)
\* int(clip(-Kp*e - Ki*integral - Kd*(e - prev)/dt, -vmax, vmax)) over the
\* common denominator 70000
PidAxis(e, i100, prev) ==
    IntDiv(Clip(-21000 * e - 7 * i100 - 100000 * (e - prev),
                -pid_vmax * 70000, pid_vmax * 70000), 70000)

\* the controller state after compute_control((ex, ey))
PidAfter(st, ex, ey) ==
    [ix |-> PidIntegral(st.ix, ex), iy |-> PidIntegral(st.iy, ey), px |-> ex, py |-> ey]
\* what compute_control((ex, ey)) returns: (vy, vx, 0, 0), vy from err_x and
\* vx from err_y
PidOutput(st, ex, ey) ==
    <<PidAxis(ex, PidIntegral(st.ix, ex), st.px),
      PidAxis(ey, PidIntegral(st.iy, ey), st.py), 0, 0>>

\* int(np.clip(yaw_error * 0.5, -20, 20)), yaw_error in microradians
YawCommand(yaw) == IntDiv(Clip(yaw, -40000000, 40000000), 2000000)

\* _execute_alignment: vy, vx, _, _ = pos_cmd; send_rc_control(int(vx), int(vy), 0, 0),
\* then send_rc_control(0, 0, 0, int(yaw_cmd))
AlignmentCalls(st, e) ==
    LET pos_cmd == PidOutput(st, e[1], e[2])
    IN  <<Rc(pos_cmd[2], pos_cmd[1], 0, 0, TRUE), Rc(0, 0, 0, YawCommand(e[3]), TRUE)>>

\* the actuator calls a tick plans for its phase.  xy stands for the spiral
\* blend of _execute_approach and the circle of _execute_search_pattern, both
\* trigonometric in values the model does not track.
PlannedCalls(phase, found, st, e, xy) ==
    CASE found /\ phase = "ALIGN" -> AlignmentCalls(st, e)
      [] found /\ phase = "APPROACH" -> <<Rc(xy[1], xy[2], -10, 0, TRUE)>>
      [] found /\ phase = "TOUCHDOWN" -> <<Land(TRUE)>>
      [] ~found /\ phase = "SEARCH" -> <<Rc(xy[1], xy[2], 0, 0, TRUE)>>
      [] OTHER -> <<>>

\* the calls actually made when the k-th planned call raises (k = 0: none does)
MadeCalls(planned, k) ==
    IF k = 0 THEN planned
    ELSE [i \in 1..k |-> IF i = k THEN [planned[i] EXCEPT !.ok = FALSE] ELSE planned[i]]

\* the counts after a sequence of at most two calls
CountedAll(c, made) ==
    IF Len(made) = 0 THEN c
    ELSE IF Len(made) = 1 THEN Counted(c, made[1])
    ELSE Counted(Counted(c, made[1]), made[2])

\* while not self.finished and time.time() - self.landing_start_time < self.max_landing_time
PrecisionLoopCondition == finished = "False" /\ now - start_time < MaxLandingTime

\* land(): self.finished = False, landing_start_time, current_phase = "SEARCH"
PrecisionStart ==
    /\ strategy = "precision" /\ lpc = "p_start"
    /\ finished' = "False"
    /\ start_time' = now
    /\ current_phase' = "SEARCH"
    /\ lpc' = "p_loop"
    /\ NoCall
    /\ UNCHANGED <<cvars, dvars, uvars, svars, cfgvars, now, mlvars, last_detection_time, pid, tick>>

\* the loop ends: its condition fails, or frame_read is missing (break)
PrecisionLoopExit ==
    /\ strategy = "precision" /\ lpc = "p_loop"
    /\ ~PrecisionLoopCondition \/ ~frame_src
    /\ lpc' = "p_after"
    /\ NoCall
    /\ UNCHANGED <<cvars, dvars, uvars, svars, cfgvars, finished, now, start_time, mlvars, plvars, tick>>

\* a loop iteration with frame_read.frame None: sleep(0.1), continue
PrecisionNoFrame ==
    /\ strategy = "precision" /\ lpc = "p_loop"
    /\ PrecisionLoopCondition /\ frame_src
    /\ now' = Sleep(now, 2)
    /\ tick' = NoTick
    /\ NoCall
    /\ UNCHANGED <<cvars, dvars, uvars, svars, cfgvars, lpc, finished, start_time, mlvars, plvars>>

\* a loop iteration whose tracker.process_frame raises: the except of land()
PrecisionTrackerRaises ==
    /\ strategy = "precision" /\ lpc = "p_loop"
    /\ PrecisionLoopCondition /\ frame_src
    /\ lpc' = "p_except"
    /\ NoCall
    /\ UNCHANGED <<cvars, dvars, uvars, svars, cfgvars, finished, now, start_time, mlvars, plvars, tick>>

\* a loop iteration with a frame: _handle_target_detected or _handle_no_target,
\* then sleep(0.05); an actuator call that raises leads to the except of land()
PrecisionTick ==
    /\ strategy = "precision" /\ lpc = "p_loop"
    /\ PrecisionLoopCondition /\ frame_src
    /\ \E found \in BOOLEAN, error_data \in PrecisionErrors, xy \in PatternCommands :
          LET e == Unpack(error_data)
              phase == IF found THEN PhaseAfterDetection(current_phase, e)
                                ELSE PhaseAfterMiss(current_phase, last_detection_time, now)
              planned == PlannedCalls(phase, found, pid, e, xy)
          IN  \E k \in 0..Len(planned) :
                 LET made == MadeCalls(planned, k)
                 IN  /\ k > 0 => FALSE \in Outcomes
                     /\ tick' = [frame |-> TRUE, found |-> found,
                                 error |-> IF found THEN error_data ELSE <<0, 0>>]
                     /\ current_phase' = phase
                     /\ last_detection_time' = IF found THEN At(now) ELSE last_detection_time
                     /\ pid' = IF found /\ phase = "ALIGN"
                                 THEN PidAfter(pid, e[1], e[2]) ELSE pid
                     /\ sent' = made
                     /\ calls' = CountedAll(calls, made)
                     /\ IF k > 0
                          THEN lpc' = "p_except" /\ UNCHANGED <<finished, now>>
                          ELSE /\ finished' = IF found /\ phase = "TOUCHDOWN"
                                                THEN "True" ELSE finished
                               /\ now' = Sleep(now, 1)
                               /\ lpc' = lpc
    /\ UNCHANGED <<cvars, dvars, uvars, svars, cfgvars, start_time, mlvars>>

\* a land() after the loop whatever finished is
PrecisionAfterLoop_always ==
    /\ strategy = "precision" /\ lpc = "p_after"
    /\ \E ok \in Outcomes :
          /\ Send(Land(ok))
          /\ IF ok THEN finished' = "True" /\ lpc' = "returned"
                   ELSE lpc' = "p_except" /\ UNCHANGED finished
    /\ UNCHANGED <<cvars, dvars, uvars, svars, cfgvars, now, start_time, mlvars, plvars, tick>>
\* after the loop: if not self.finished: tello.land(); self.finished = True
PrecisionAfterLoop ==
    /\ strategy = "precision" /\ lpc = "p_after"
    /\ IF finished = "False"
         THEN \E ok \in Outcomes :
                 /\ Send(Land(ok))
                 /\ IF ok THEN finished' = "True" /\ lpc' = "returned"
                          ELSE lpc' = "p_except" /\ UNCHANGED finished
         ELSE lpc' = "returned" /\ NoCall /\ UNCHANGED finished
    /\ UNCHANGED <<cvars, dvars, uvars, svars, cfgvars, now, start_time, mlvars, plvars, tick>>

\* except Exception: tello.land(); self.finished = True
PrecisionExcept ==
    /\ strategy = "precision" /\ lpc = "p_except"
    /\ \E ok \in Outcomes :
          /\ Send(Land(ok))
          /\ IF ok THEN finished' = "True" /\ lpc' = "returned"
                   ELSE lpc' = "raised" /\ UNCHANGED finished
    /\ UNCHANGED <<cvars, dvars, uvars, svars, cfgvars, now, start_time, mlvars, plvars, tick>>

----------------------------------------------------------------------------
\* the first statement of each strategy's land()
EntryPoint(s) ==
    CASE s = "simple" -> "s_rc"
      [] s = "multilayer" -> "m_start"
      [] s = "glide" -> "g_start"
      [] s = "precision" -> "p_start"

\* A strategy object right after construction, about to run land(): none of
\* the four constructors sets the finished attribute.
LandingInit ==
    /\ strategy \in {"simple", "multilayer", "glide", "precision"}
    /\ tracker_ok \in BOOLEAN
    /\ frame_src \in BOOLEAN
    /\ lpc = EntryPoint(strategy)
    /\ finished = "unset"
    /\ sent = <<>>
    /\ calls = NoCalls
    /\ now = 0
    /\ start_time = 0
    /\ layer = 0
    /\ aligned_count = 0
    /\ aligned = FALSE
    /\ current_h = NoHeight
    /\ current_phase = "SEARCH"
    /\ last_detection_time = Never
    /\ pid = [ix |-> 0, iy |-> 0, px |-> 0, py |-> 0]
    /\ tick = NoTick
    /\ spc = "off" /\ running = TRUE /\ stream_on = frame_src
    /\ start = 0 /\ ascend_sent = FALSE /\ landings = 0 /\ pubs = 0
    /\ vpc = "v_idle" /\ vt_running = TRUE /\ vt_frame = 0 /\ vt_debug = 0
    /\ v_frame = 0 /\ shown = <<>>
    /\ law = "none" /\ law_state = [ix |-> 0, iy |-> 0, px |-> 0, py |-> 0]
    /\ law_in = <<>> /\ law_out = <<>> /\ law_calls = 0
    /\ displayed = FALSE
    /\ slpc = "idle" /\ sl_depth = 0 /\ sl_attempts = 0
    /\ sl_state = NoDroneState /\ sl_slept = 0 /\ sl_result = "none"

LandingNext ==
    \/ SimpleStop
    \/ SimpleLand
    \/ SimpleForceLand
    \/ MultiStart
    \/ MultiAlignBegin
    \/ MultiAlignTimeout
    \/ MultiAlignNoFrame
    \/ MultiAlignTick
    \/ MultiDescendStop
    \/ MultiReadHeight
    \/ MultiDirectLand
    \/ MultiMoveDown
    \/ MultiDescendExcept
    \/ MultiFinalLand
    \/ GlideStart
    \/ GlideNoFrame
    \/ GlideTrack
    \/ GlideReadTof
    \/ GlideLowStop
    \/ GlideLowLand
    \/ GlideCheckTimeout
    \/ GlideTimeoutStop
    \/ GlideTimeoutLand
    \/ PrecisionStart
    \/ PrecisionLoopExit
    \/ PrecisionNoFrame
    \/ PrecisionTrackerRaises
    \/ PrecisionTick
    \/ PrecisionAfterLoop
    \/ PrecisionExcept

LandingSpec == LandingInit /\ [][LandingNext]_vars

\* the thread running land() keeps executing its next statement
FairLandingSpec == LandingSpec /\ WF_vars(LandingNext)

----------------------------------------------------------------------------
\* TelloTargetFollower.run (main.py): take-off, the tracking loop, landing and
\* clean-up, run by the control thread.

\* TelloTargetFollower(timeout=...), in periods
MissionTimeout == 11
\* how long a call of landing_protocol.land() blocks the control thread while
\* the strategy runs its ticks, in periods: given a small value
LandingTime == 2
\* _takeoff_and_stabilize: the length of the stabilization loop (3.0 s in the
\* code), in periods: given a small value
StabilizeTime == 4
\* _takeoff_and_stabilize: move('up') is sent once 0.1 s have passed
AscendDelay == 2
\* TelloTargetFollower(takeoff_height=30)
takeoff_height == 30
\* run: for _ in range(10) reads a frame and sleeps 0.05 s
WarmupReads == 10

Takeoff(ok) == [op |-> "takeoff", a |-> <<>>, ok |-> ok]
MoveUp(cm, ok) == [op |-> "move_up", a |-> <<cm>>, ok |-> ok]

\* Thread.is_alive() of the visualization thread: started and run() not over
IsAlive == vpc \notin {"v_idle", "v_done"}

\* how a call of landing_protocol.land() can end: it returns or raises, and
\* leaves the finished attribute unset, False or True
LandOutcomes ==
    {[raised |-> FALSE, finished |-> "unset"],
     [raised |-> FALSE, finished |-> "True"],
     [raised |-> TRUE, finished |-> "False"],
     [raised |-> TRUE, finished |-> "True"]}

\* the clock after a loop iteration that does not sleep: the iteration takes
\* no time or one period; the clock is not followed beyond the first instant
\* past the mission timeout
SpinClock(t) ==
    IF t - start_time <= MissionTimeout THEN {t, t + 1} ELSE {t}

\* run: self.visual_thread.start()
RunStart ==
    /\ spc = "r_start"
    /\ vpc' = "v_loop"
    /\ spc' = "k_takeoff"
    /\ NoCall
    /\ UNCHANGED <<running, stream_on, start, ascend_sent, landings, pubs>>
    /\ UNCHANGED <<vt_running, vt_frame, vt_debug, v_frame, shown>>
    /\ UNCHANGED <<cvars, dvars, uvars, lonly, frame_src, finished, now, start_time, tick>>

\* a takeoff whose exception leaves run() without the finally clause
TakeoffCommand_unprotected ==
    /\ spc = "k_takeoff"
    /\ \E ok \in Outcomes :
          /\ Send(Takeoff(ok))
          /\ spc' = IF ok THEN "k_loop" ELSE "r_finally"
    /\ start' = now
    /\ ascend_sent' = FALSE
    /\ UNCHANGED <<running, stream_on, landings, pubs, vtvars>>
    /\ UNCHANGED <<cvars, dvars, uvars, lonly, frame_src, finished, now, start_time, tick>>
\* _takeoff_and_stabilize: self.tello.takeoff(); start = time.time();
\* ascend_sent = False
TakeoffCommand ==
    /\ spc = "k_takeoff"
    /\ \E ok \in Outcomes :
          /\ Send(Takeoff(ok))
          /\ spc' = IF ok THEN "k_loop" ELSE "r_land"
    /\ start' = now
    /\ ascend_sent' = FALSE
    /\ UNCHANGED <<running, stream_on, landings, pubs, vtvars>>
    /\ UNCHANGED <<cvars, dvars, uvars, lonly, frame_src, finished, now, start_time, tick>>

\* _takeoff_and_stabilize: while time.time() - start < 3.0: if not ascend_sent
\* and time.time() - start > 0.1: self.tello.move('up', self.takeoff_height)
TakeoffLoop ==
    /\ spc = "k_loop"
    /\ IF now - start < StabilizeTime
         THEN IF ~ascend_sent /\ now - start > AscendDelay
                THEN \E ok \in Outcomes :
                        /\ Send(MoveUp(takeoff_height, ok))
                        /\ ascend_sent' = ok
                        /\ spc' = IF ok THEN "k_frame" ELSE "r_land"
                ELSE /\ NoCall
                     /\ spc' = "k_frame"
                     /\ UNCHANGED ascend_sent
         ELSE /\ NoCall
              /\ spc' = "r_warmup"
              /\ UNCHANGED ascend_sent
    /\ UNCHANGED <<running, stream_on, start, landings, pubs, vtvars>>
    /\ UNCHANGED <<cvars, dvars, uvars, lonly, frame_src, finished, now, start_time, tick>>

\* _takeoff_and_stabilize: frame = self.tello_connector.frame_read.frame (an
\* AttributeError when frame_read is None); if frame is not None: ...
\* if self.visual_thread.is_alive(): ...; time.sleep(0.05)
TakeoffFrame ==
    /\ spc = "k_frame"
    /\ IF ~stream_on
         THEN spc' = "r_land" /\ UNCHANGED now
         ELSE \E available \in BOOLEAN :
                 IF available /\ IsAlive
                   THEN spc' = "k_pub_frame" /\ UNCHANGED now
                   ELSE spc' = "k_loop" /\ now' = Sleep(now, 1)
    /\ NoCall
    /\ UNCHANGED <<running, stream_on, start, ascend_sent, landings, pubs, vtvars>>
    /\ UNCHANGED <<cvars, dvars, uvars, lonly, frame_src, finished, start_time, tick>>

\* a publish that waits until the consumer has emptied the slot
PublishFrame_waiting(from, to) ==
    /\ spc = from
    /\ vt_frame = 0
    /\ pubs' = pubs + 1
    /\ vt_frame' = pubs + 1
    /\ spc' = to
    /\ NoCall
    /\ UNCHANGED <<running, stream_on, start, ascend_sent, landings>>
    /\ UNCHANGED <<vpc, vt_running, vt_debug, v_frame, shown>>
    /\ UNCHANGED <<cvars, dvars, uvars, lonly, frame_src, finished, now, start_time, tick>>
\* self.visual_thread.frame = ...: the first half of a publish
PublishFrame(from, to) ==
    /\ spc = from
    /\ pubs' = pubs + 1
    /\ vt_frame' = pubs + 1
    /\ spc' = to
    /\ NoCall
    /\ UNCHANGED <<running, stream_on, start, ascend_sent, landings>>
    /\ UNCHANGED <<vpc, vt_running, vt_debug, v_frame, shown>>
    /\ UNCHANGED <<cvars, dvars, uvars, lonly, frame_src, finished, now, start_time, tick>>

\* self.visual_thread.debug = debug: the second half of a publish
PublishDebug(from, to, sleep) ==
    /\ spc = from
    /\ vt_debug' = pubs
    /\ spc' = to
    /\ now' = Sleep(now, sleep)
    /\ NoCall
    /\ UNCHANGED <<running, stream_on, start, ascend_sent, landings, pubs>>
    /\ UNCHANGED <<vpc, vt_running, vt_frame, v_frame, shown>>
    /\ UNCHANGED <<cvars, dvars, uvars, lonly, frame_src, finished, start_time, tick>>

\* _takeoff_and_stabilize: self.visual_thread.frame = transposed
TakeoffPublishFrame == PublishFrame("k_pub_frame", "k_pub_debug")
\* _takeoff_and_stabilize: self.visual_thread.debug = debug; time.sleep(0.05)
TakeoffPublishDebug == PublishDebug("k_pub_debug", "k_loop", 1)

\* run: start_time = time.time(); self.frame_read = ...frame_read; ten frame
\* reads, each followed by time.sleep(0.05)
RunWarmup ==
    /\ spc = "r_warmup"
    /\ start_time' = now
    /\ frame_src' = stream_on
    /\ IF stream_on
         THEN spc' = "t_head" /\ now' = Sleep(now, WarmupReads)
         ELSE spc' = "r_land" /\ UNCHANGED now
    /\ NoCall
    /\ UNCHANGED <<running, stream_on, start, ascend_sent, landings, pubs, vtvars>>
    /\ UNCHANGED <<cvars, dvars, uvars, lonly, finished, tick>>

\* run: while self.running
TrackHead ==
    /\ spc = "t_head"
    /\ spc' = IF running THEN "t_frame" ELSE "r_land"
    /\ NoCall
    /\ UNCHANGED <<running, stream_on, start, ascend_sent, landings, pubs, vtvars>>
    /\ UNCHANGED <<cvars, dvars, uvars, lonly, frame_src, finished, now, start_time, tick>>

\* run: frame = self._get_frame(); if frame is None: ...; continue
TrackNoFrame ==
    /\ spc = "t_frame"
    /\ spc' = "t_head"
    /\ now' \in SpinClock(now)
    /\ tick' = NoTick
    /\ NoCall
    /\ UNCHANGED <<running, stream_on, start, ascend_sent, landings, pubs, vtvars>>
    /\ UNCHANGED <<cvars, dvars, uvars, lonly, frame_src, finished, start_time>>

\* run: found, error, debug = self.tracker.process_frame(frame);
\* if self.visual_thread.is_alive(): ...
TrackProcess ==
    /\ spc = "t_frame"
    /\ \E r \in TrackerResults :
          /\ tick' = [frame |-> TRUE, found |-> r.found, error |-> r.error]
          /\ spc' = IF r.raised THEN "r_land"
                    ELSE IF IsAlive THEN "t_pub_frame" ELSE "t_control"
    /\ NoCall
    /\ UNCHANGED <<running, stream_on, start, ascend_sent, landings, pubs, vtvars>>
    /\ UNCHANGED <<cvars, dvars, uvars, lonly, frame_src, finished, now, start_time>>

\* run: self.visual_thread.frame = frame
TrackPublishFrame == PublishFrame("t_pub_frame", "t_pub_debug")
\* run: self.visual_thread.debug = debug
TrackPublishDebug == PublishDebug("t_pub_debug", "t_control", 0)

\* the visual protocol is the default one, OpenCVVisualProtocol: it has
\* _display_frame, and initialize_window() has created its window
has_display == TRUE

\* a control step that sends nothing when the target is lost
TrackControl_silent ==
    /\ spc = "t_control"
    /\ displayed' = (has_display /\ shown # <<>>)
    /\ \E ok \in Outcomes :
          LET rc == compute_control(tick.error)
          IN  /\ IF tick.found THEN Send(Rc(rc[1], rc[2], rc[3], rc[4], ok))
                                ELSE NoCall
              /\ spc' = IF ok THEN "t_stop" ELSE "r_land"
    /\ UNCHANGED <<running, stream_on, start, ascend_sent, landings, pubs, vtvars>>
    /\ UNCHANGED <<cvars, uvars, lonly, frame_src, finished, now, start_time, tick>>
\* run: if hasattr(self.visual_protocol, '_display_frame'):
\* self.visual_protocol._display_frame(), which shows the protocol's
\* _frame_buffer, the frame last passed to show(); then _handle_control
TrackControl ==
    /\ spc = "t_control"
    /\ displayed' = (has_display /\ shown # <<>>)
    /\ \E ok \in Outcomes :
          LET rc == compute_control(tick.error)
          IN  /\ Send(IF tick.found THEN Rc(rc[1], rc[2], rc[3], rc[4], ok)
                                    ELSE Hover(ok))
              /\ spc' = IF ok THEN "t_stop" ELSE "r_land"
    /\ UNCHANGED <<running, stream_on, start, ascend_sent, landings, pubs, vtvars>>
    /\ UNCHANGED <<cvars, uvars, lonly, frame_src, finished, now, start_time, tick>>

\* run: self._check_quit(); self._check_timeout(start_time); time.sleep(0.05)
TrackCheckStop ==
    /\ spc = "t_stop"
    /\ displayed' = FALSE
    /\ \E quit \in BOOLEAN :
          running' = (running /\ ~quit /\ ~(now - start_time > MissionTimeout))
    /\ now' = Sleep(now, 1)
    /\ spc' = "t_head"
    /\ NoCall
    /\ UNCHANGED <<stream_on, start, ascend_sent, landings, pubs, vtvars>>
    /\ UNCHANGED <<cvars, uvars, lonly, frame_src, finished, start_time, tick>>

StreamOff(ok) == [op |-> "streamoff", a |-> <<>>, ok |-> ok]
DisablePads(ok) == [op |-> "disable_mission_pads", a |-> <<>>, ok |-> ok]
End(ok) == [op |-> "end", a |-> <<>>, ok |-> ok]

\* TelloConnector.cleanup: streamoff(), disable_mission_pads() and end(), each
\* with its exception swallowed, then time.sleep(0.2)
Cleanup ==
    /\ \E a \in BOOLEAN, b \in BOOLEAN, c \in BOOLEAN :
          sent' = <<StreamOff(a), DisablePads(b), End(c)>>
    /\ UNCHANGED calls
    /\ now' = Sleep(now, 4)

\* _land_and_cleanup: self.landing_protocol.land(self.tello, ...), a
\* synchronous call; the session sees only how it ends and how long it took
RunLand ==
    /\ spc = "r_land"
    /\ displayed' = FALSE
    /\ landings' = landings + 1
    /\ \E out \in LandOutcomes :
          /\ finished' = out.finished
          /\ spc' = IF out.raised THEN "r_finally" ELSE "r_wait"
    /\ now' = now + LandingTime
    /\ NoCall
    /\ UNCHANGED <<running, stream_on, start, ascend_sent, pubs, vtvars>>
    /\ UNCHANGED <<cvars, uvars, lonly, frame_src, start_time, tick>>

\* _land_and_cleanup: while not getattr(self.landing_protocol, "finished",
\* True): publish a frame of the stream; time.sleep(0.05)
RunWait ==
    /\ spc = "r_wait"
    /\ IF FinishedSeen
         THEN /\ spc' = "r_cleanup"
              /\ UNCHANGED <<now, pubs, vt_frame, vt_debug>>
         ELSE IF ~stream_on
           THEN /\ spc' = "r_finally"
                /\ UNCHANGED <<now, pubs, vt_frame, vt_debug>>
           ELSE /\ spc' = "r_wait"
                /\ now' = Sleep(now, 1)
                /\ \E available \in BOOLEAN :
                      IF available /\ IsAlive
                        THEN /\ pubs' = pubs + 1
                             /\ vt_frame' = pubs + 1
                             /\ vt_debug' = pubs + 1
                        ELSE UNCHANGED <<pubs, vt_frame, vt_debug>>
    /\ NoCall
    /\ UNCHANGED <<running, stream_on, start, ascend_sent, landings>>
    /\ UNCHANGED <<vpc, vt_running, v_frame, shown>>
    /\ UNCHANGED <<cvars, dvars, uvars, lonly, frame_src, finished, start_time, tick>>

\* _land_and_cleanup: self.tello_connector.cleanup()
RunCleanup ==
    /\ spc = "r_cleanup"
    /\ Cleanup
    /\ spc' = "r_finally"
    /\ UNCHANGED <<running, stream_on, start, ascend_sent, landings, pubs, vtvars>>
    /\ UNCHANGED <<cvars, dvars, uvars, lonly, frame_src, finished, start_time, tick>>

\* _land_and_cleanup: finally: if self.visual_thread.is_alive():
\* self.visual_thread.stop()
RunStopVisual ==
    /\ spc = "r_finally"
    /\ IF IsAlive
         THEN vt_running' = FALSE /\ spc' = "r_join"
         ELSE spc' = "r_done" /\ UNCHANGED vt_running
    /\ NoCall
    /\ UNCHANGED <<running, stream_on, start, ascend_sent, landings, pubs>>
    /\ UNCHANGED <<vpc, vt_frame, vt_debug, v_frame, shown>>
    /\ UNCHANGED <<cvars, dvars, uvars, lonly, frame_src, finished, now, start_time, tick>>

\* _land_and_cleanup: self.visual_thread.join()
RunJoin ==
    /\ spc = "r_join"
    /\ vpc = "v_done"
    /\ spc' = "r_done"
    /\ NoCall
    /\ UNCHANGED <<running, stream_on, start, ascend_sent, landings, pubs, vtvars>>
    /\ UNCHANGED <<cvars, dvars, uvars, lonly, frame_src, finished, now, start_time, tick>>

\* main: post_flight_cleanup(tello_connector) after follower.run() returned
PostFlightCleanup ==
    /\ spc = "r_done"
    /\ Cleanup
    /\ spc' = "exit"
    /\ UNCHANGED <<running, stream_on, start, ascend_sent, landings, pubs, vtvars>>
    /\ UNCHANGED <<cvars, dvars, uvars, lonly, frame_src, finished, start_time, tick>>

----------------------------------------------------------------------------
\* VisualThread.run (visual_protocols/visual_thread.py), run by the
\* visualization thread.

\* while self.running: if self.frame is not None: ... ; time.sleep(0.01)
VisualLoop ==
    /\ vpc = "v_loop"
    /\ vpc' = IF ~vt_running THEN "v_done"
              ELSE IF vt_frame # 0 THEN "v_show" ELSE "v_loop"
    /\ UNCHANGED <<vt_running, vt_frame, vt_debug, v_frame, shown>>
    /\ UNCHANGED <<cvars, dvars, uvars, lvars, runvars>>

\* self.visual_protocol.show(self.frame, ...): the first argument is read
VisualReadFrame ==
    /\ vpc = "v_show"
    /\ v_frame' = vt_frame
    /\ vpc' = "v_show_debug"
    /\ UNCHANGED <<vt_running, vt_frame, vt_debug, shown>>
    /\ UNCHANGED <<cvars, dvars, uvars, lvars, runvars>>

\* self.visual_protocol.show(..., self.debug): the second argument is read and
\* show() is called; an exception it raises is logged
VisualShow ==
    /\ vpc = "v_show_debug"
    /\ shown' = <<v_frame, vt_debug>>
    /\ v_frame' = 0
    /\ vpc' = "v_clear"
    /\ UNCHANGED <<vt_running, vt_frame, vt_debug>>
    /\ UNCHANGED <<cvars, dvars, uvars, lvars, runvars>>

\* finally: self.frame = None; then time.sleep(0.01)
VisualClear ==
    /\ vpc = "v_clear"
    /\ vt_frame' = 0
    /\ vpc' = "v_loop"
    /\ UNCHANGED <<vt_running, vt_debug, v_frame, shown>>
    /\ UNCHANGED <<cvars, dvars, uvars, lvars, runvars>>

----------------------------------------------------------------------------
\* TelloTargetFollower right after construction, run() about to be called;
\* tello_connector.connect() has started the video stream or has failed to
SessionInit ==
    /\ spc = "r_start"
    /\ running = TRUE
    /\ stream_on \in BOOLEAN
    /\ start = 0 /\ ascend_sent = FALSE /\ landings = 0 /\ pubs = 0
    /\ vpc = "v_idle" /\ vt_running = TRUE /\ vt_frame = 0 /\ vt_debug = 0
    /\ v_frame = 0 /\ shown = <<>>
    /\ strategy = "configured" /\ tracker_ok = TRUE /\ frame_src = FALSE
    /\ lpc = "idle"
    /\ finished = "unset"
    /\ sent = <<>>
    /\ calls = NoCalls
    /\ now = 0
    /\ start_time = 0
    /\ layer = 0
    /\ aligned_count = 0
    /\ aligned = FALSE
    /\ current_h = NoHeight
    /\ current_phase = "SEARCH"
    /\ last_detection_time = Never
    /\ pid = [ix |-> 0, iy |-> 0, px |-> 0, py |-> 0]
    /\ tick = NoTick
    /\ law = "none" /\ law_state = [ix |-> 0, iy |-> 0, px |-> 0, py |-> 0]
    /\ law_in = <<>> /\ law_out = <<>> /\ law_calls = 0
    /\ displayed = FALSE
    /\ slpc = "idle" /\ sl_depth = 0 /\ sl_attempts = 0
    /\ sl_state = NoDroneState /\ sl_slept = 0 /\ sl_result = "none"

\* the steps of the control thread
ControlNext ==
    \/ RunStart
    \/ TakeoffCommand
    \/ TakeoffLoop
    \/ TakeoffFrame
    \/ TakeoffPublishFrame
    \/ TakeoffPublishDebug
    \/ RunWarmup
    \/ TrackHead
    \/ TrackNoFrame
    \/ TrackProcess
    \/ TrackPublishFrame
    \/ TrackPublishDebug
    \/ TrackControl
    \/ TrackCheckStop
    \/ RunLand
    \/ RunWait
    \/ RunCleanup
    \/ RunStopVisual
    \/ RunJoin
    \/ PostFlightCleanup

\* the steps of the visualization thread
VisualNext ==
    \/ VisualLoop
    \/ VisualReadFrame
    \/ VisualShow
    \/ VisualClear

SessionNext == ControlNext \/ VisualNext

SessionSpec == SessionInit /\ [][SessionNext]_vars

\* both threads keep being scheduled
FairSessionSpec ==
    SessionSpec /\ WF_vars(ControlNext) /\ WF_vars(VisualNext)

----------------------------------------------------------------------------
\* The control laws (control_protocols/) and ContinuousGlideLanding's descent
\* speed, called on their own with a sequence of inputs.

\* at most this many calls are made on one law object
MaxLawCalls == 3
\* (err_x, err_y) errors passed to compute_control
LawErrors == {<<0, 0>>, <<3, -3>>, <<10, -4>>, <<-2000, 60>>, <<60, 2000>>}
\* dt arguments of compute_control, in hundredths of a second (0.07 is the
\* default)
Dts == {7, 10}
\* (dx, dy) errors passed to _compute_descent_speed
GlideErrors == {<<0, 0>>, <<10, -4>>, <<33, 0>>, <<60, 0>>, <<99, 0>>, <<0, 100>>, <<150, 150>>}
\* (min_vz, max_vz) of a ContinuousGlideLanding, min_vz <= max_vz
VzRanges == {<<10, 25>>, <<10, 10>>, <<0, 30>>}

\* a speed that grows with the error
DescentSpeed_growing(lo, hi, error, lost) ==
    LET sq == error[1] * error[1] + error[2] * error[2]
    IN  IF lost \/ sq >= 10000
          THEN -hi
          ELSE -(lo + CeilScaledRoot(hi - lo, sq))
\* _compute_descent_speed for min_vz = lo <= max_vz = hi: with d = hi - lo,
\* int(lo + d * max(0, 1 - mag / 100)) is lo when mag >= 100 and
\* hi - ceil(d * mag / 100) otherwise
DescentSpeed(lo, hi, error, lost) ==
    LET sq == error[1] * error[1] + error[2] * error[2]
    IN  IF lost \/ sq >= 10000
          THEN -lo
          ELSE -(hi - CeilScaledRoot(hi - lo, sq))

\* PIControl(Kp=0.5, Ki=0.01, vmax=25).compute_control: self.int_x += err_x * dt,
\* never clamped.  The integral is kept in hundredths, dt in hundredths of a
\* second.
PIIntegral(i100, e, dt100) == i100 + e * dt100
\* an axis that is not clipped to the speed limit
PIAxis_unclipped(e, i100) == IntDiv(-5000 * e - i100, 10000)
\* int(clip(-Kp * e - Ki * integral, -vmax, vmax)) over the denominator 10000
PIAxis(e, i100) ==
    IntDiv(Clip(-5000 * e - i100, -vmax * 10000, vmax * 10000), 10000)
\* what PIControl.compute_control returns: vy, vx, 0, 0 with vy from err_x
PIOutput(st, error, dt100) ==
    <<PIAxis(error[1], PIIntegral(st.ix, error[1], dt100)),
      PIAxis(error[2], PIIntegral(st.iy, error[2], dt100)), 0, 0>>
PIAfter(st, error, dt100) ==
    [st EXCEPT !.ix = PIIntegral(st.ix, error[1], dt100),
               !.iy = PIIntegral(st.iy, error[2], dt100)]

\* an integral that is accumulated without the clamp
AntiWindup_unclamped(i100, e, dt100) == i100 + e * dt100
\* PIDControl(Kp=0.5, Ki=0.01, Kd=0.05, vmax=25, integral_limit=100)
\* .compute_control: np.clip(self.integral_x + err_x * dt, -limit, limit)
AntiWindup(i100, e, dt100) ==
    Clip(i100 + e * dt100, -100 * integral_limit, 100 * integral_limit)
\* int(clip(-Kp * e - Ki * integral - Kd * (e - prev) / dt, -vmax, vmax)) over
\* the denominator 10000 * dt100
PIDControlAxis(e, i100, prev, dt100) ==
    IntDiv(Clip(-5000 * dt100 * e - dt100 * i100 - 50000 * (e - prev),
                -vmax * 10000 * dt100, vmax * 10000 * dt100),
           10000 * dt100)
\* what PIDControl.compute_control returns: vy, vx, 0, 0 with vy from err_x
PIDOutput(st, error, dt100) ==
    <<PIDControlAxis(error[1], AntiWindup(st.ix, error[1], dt100), st.px, dt100),
      PIDControlAxis(error[2], AntiWindup(st.iy, error[2], dt100), st.py, dt100),
      0, 0>>
PIDAfter(st, error, dt100) ==
    [ix |-> AntiWindup(st.ix, error[1], dt100),
     iy |-> AntiWindup(st.iy, error[2], dt100),
     px |-> error[1], py |-> error[2]]

\* ProportionalControl.compute_control(error)
ProportionalCompute ==
    /\ law = "P" /\ law_calls < MaxLawCalls
    /\ \E e \in LawErrors :
          /\ law_in' = <<e[1], e[2]>>
          /\ law_out' = compute_control(e)
    /\ law_calls' = law_calls + 1
    /\ UNCHANGED <<law, law_state, lvars, svars, dvars, uvars>>

\* PIControl.compute_control(error, dt)
PICompute ==
    /\ law = "PI" /\ law_calls < MaxLawCalls
    /\ \E e \in LawErrors, dt100 \in Dts :
          /\ law_in' = <<e[1], e[2], dt100>>
          /\ law_out' = PIOutput(law_state, e, dt100)
          /\ law_state' = PIAfter(law_state, e, dt100)
    /\ law_calls' = law_calls + 1
    /\ UNCHANGED <<law, lvars, svars, dvars, uvars>>

\* PIDControl.compute_control(error, dt)
PIDCompute ==
    /\ law = "PID" /\ law_calls < MaxLawCalls
    /\ \E e \in LawErrors, dt100 \in Dts :
          /\ law_in' = <<e[1], e[2], dt100>>
          /\ law_out' = PIDOutput(law_state, e, dt100)
          /\ law_state' = PIDAfter(law_state, e, dt100)
    /\ law_calls' = law_calls + 1
    /\ UNCHANGED <<law, lvars, svars, dvars, uvars>>

\* ContinuousGlideLanding(min_vz, max_vz)._compute_descent_speed(error)
GlideSpeed ==
    /\ law = "glide" /\ law_calls < MaxLawCalls
    /\ \E e \in GlideErrors, r \in VzRanges :
          /\ law_in' = <<e[1], e[2], r[1], r[2]>>
          /\ law_out' = <<DescentSpeed(r[1], r[2], e, FALSE)>>
    /\ law_calls' = law_calls + 1
    /\ UNCHANGED <<law, law_state, lvars, svars, dvars, uvars>>

\* a law object right after construction
LawInit ==
    /\ law \in {"P", "PI", "PID", "glide"}
    /\ law_state = [ix |-> 0, iy |-> 0, px |-> 0, py |-> 0]
    /\ law_in = <<>> /\ law_out = <<>> /\ law_calls = 0
    /\ displayed = FALSE
    /\ slpc = "idle" /\ sl_depth = 0 /\ sl_attempts = 0
    /\ sl_state = NoDroneState /\ sl_slept = 0 /\ sl_result = "none"
    /\ spc = "off" /\ running = TRUE /\ stream_on = FALSE
    /\ start = 0 /\ ascend_sent = FALSE /\ landings = 0 /\ pubs = 0
    /\ vpc = "v_idle" /\ vt_running = TRUE /\ vt_frame = 0 /\ vt_debug = 0
    /\ v_frame = 0 /\ shown = <<>>
    /\ strategy = "configured" /\ tracker_ok = TRUE /\ frame_src = FALSE
    /\ lpc = "idle"
    /\ finished = "unset"
    /\ sent = <<>>
    /\ calls = NoCalls
    /\ now = 0
    /\ start_time = 0
    /\ layer = 0
    /\ aligned_count = 0
    /\ aligned = FALSE
    /\ current_h = NoHeight
    /\ current_phase = "SEARCH"
    /\ last_detection_time = Never
    /\ pid = [ix |-> 0, iy |-> 0, px |-> 0, py |-> 0]
    /\ tick = NoTick

LawNext ==
    \/ ProportionalCompute
    \/ PICompute
    \/ PIDCompute
    \/ GlideSpeed

LawSpec == LawInit /\ [][LawNext]_vars

----------------------------------------------------------------------------
\* safe_land (utils/tello_cleanup.py), called on its own with a drone that
\* answers each query and each command in any way.

\* the depth of recursion at which the interpreter raises RecursionError
\* (sys.getrecursionlimit() is 1000): given a small value
RecursionLimit == 3
\* what tello.get_battery() can return, in percent
Batteries == {5, 80}
\* what tello.get_height() can return, in cm
DroneHeights == {0, 5, 100}
\* what tello.get_temperature() can return, in degrees
Temperatures == {40, 90}

\* check_drone_state, from the three reads: a failing get_battery() leaves the
\* initial dictionary, a failing get_height() motors_on and flying False, a
\* failing get_temperature() the temperature 0
check_drone_state(b, h, t) ==
    IF ~b.ok THEN NoDroneState
    ELSE [connected   |-> TRUE,
          battery     |-> b.v,
          motors_on   |-> h.ok /\ h.v > 0,
          flying      |-> h.ok /\ h.v > 10,
          height      |-> IF h.ok THEN h.v ELSE 0,
          temperature |-> IF t.ok THEN t.v ELSE 0]

\* every dictionary check_drone_state can return
DroneStates ==
    {check_drone_state(b, h, t) : b \in SensorResults(Batteries),
                                  h \in SensorResults(DroneHeights),
                                  t \in SensorResults(Temperatures)}

\* the innermost call returns v, and every caller returns it unchanged
\* (return safe_land(tello))
SafeLandReturn(v) ==
    /\ sl_result' = (IF v THEN "True" ELSE "False")
    /\ sl_depth' = 0
    /\ slpc' = "sl_done"

\* return safe_land(tello): one more call on the stack; at the recursion
\* limit the call raises RecursionError, which no frame catches: every
\* caller is inside its except clause
SafeLandRetry ==
    IF sl_depth < RecursionLimit
      THEN /\ sl_depth' = sl_depth + 1
           /\ slpc' = "sl_check"
           /\ UNCHANGED sl_result
      ELSE /\ sl_result' = "RecursionError"
           /\ sl_depth' = 0
           /\ slpc' = "sl_done"

\* safe_land: state = check_drone_state(tello); if not state["flying"]:
\* return True
SafeLandCheck ==
    /\ slpc = "sl_check"
    /\ \E st \in DroneStates :
          /\ sl_state' = st
          /\ IF ~st.flying
               THEN SafeLandReturn(TRUE)
               ELSE slpc' = "sl_land" /\ UNCHANGED <<sl_depth, sl_result>>
    /\ UNCHANGED <<sl_attempts, sl_slept>>
    /\ UNCHANGED <<lvars, svars, cvars, dvars>>

\* safe_land: tello.land(); time.sleep(3); an exception goes to the except
\* clause
SafeLandCommand ==
    /\ slpc = "sl_land"
    /\ sl_attempts' = sl_attempts + 1
    /\ \E ok \in BOOLEAN :
          IF ok THEN slpc' = "sl_final" /\ sl_slept' = sl_slept + 3
                ELSE slpc' = "sl_except" /\ UNCHANGED sl_slept
    /\ UNCHANGED <<sl_depth, sl_state, sl_result>>
    /\ UNCHANGED <<lvars, svars, cvars, dvars>>

\* safe_land: final_state = check_drone_state(tello); return not
\* final_state["flying"]
SafeLandFinalCheck ==
    /\ slpc = "sl_final"
    /\ \E st \in DroneStates :
          /\ sl_state' = st
          /\ SafeLandReturn(~st.flying)
    /\ UNCHANGED <<sl_attempts, sl_slept>>
    /\ UNCHANGED <<lvars, svars, cvars, dvars>>

\* except: handle_motor_stop_error(tello, "land") up to its takeoff: give up
\* when not connected, battery < 10 or temperature > 80; with the motors off
\* go on to takeoff(); when flying sleep(1) and retry; else give up
SafeLandHandleError ==
    /\ slpc = "sl_except"
    /\ \E st \in DroneStates :
          /\ sl_state' = st
          /\ IF ~st.connected \/ st.battery < 10 \/ st.temperature > 80
               THEN SafeLandReturn(FALSE) /\ UNCHANGED sl_slept
               ELSE IF ~st.motors_on
                 THEN slpc' = "sl_takeoff" /\ UNCHANGED <<sl_depth, sl_result, sl_slept>>
                 ELSE IF st.flying
                   THEN SafeLandRetry /\ sl_slept' = sl_slept + 1
                   ELSE SafeLandReturn(FALSE) /\ UNCHANGED sl_slept
    /\ UNCHANGED sl_attempts
    /\ UNCHANGED <<lvars, svars, cvars, dvars>>

\* handle_motor_stop_error: tello.takeoff(); time.sleep(2); return True, or
\* False when takeoff() raises
SafeLandTakeoff ==
    /\ slpc = "sl_takeoff"
    /\ \E ok \in BOOLEAN :
          IF ok THEN SafeLandRetry /\ sl_slept' = sl_slept + 2
                ELSE SafeLandReturn(FALSE) /\ UNCHANGED sl_slept
    /\ UNCHANGED <<sl_attempts, sl_state>>
    /\ UNCHANGED <<lvars, svars, cvars, dvars>>

\* safe_land(tello) has just been called; nothing else is running
SafeLandInit ==
    /\ slpc = "sl_check" /\ sl_depth = 1 /\ sl_attempts = 0
    /\ sl_state = NoDroneState /\ sl_slept = 0 /\ sl_result = "none"
    /\ displayed = FALSE
    /\ law = "none" /\ law_state = [ix |-> 0, iy |-> 0, px |-> 0, py |-> 0]
    /\ law_in = <<>> /\ law_out = <<>> /\ law_calls = 0
    /\ spc = "off" /\ running = TRUE /\ stream_on = FALSE
    /\ start = 0 /\ ascend_sent = FALSE /\ landings = 0 /\ pubs = 0
    /\ vpc = "v_idle" /\ vt_running = TRUE /\ vt_frame = 0 /\ vt_debug = 0
    /\ v_frame = 0 /\ shown = <<>>
    /\ strategy = "configured" /\ tracker_ok = TRUE /\ frame_src = FALSE
    /\ lpc = "idle"
    /\ finished = "unset"
    /\ sent = <<>>
    /\ calls = NoCalls
    /\ now = 0
    /\ start_time = 0
    /\ layer = 0
    /\ aligned_count = 0
    /\ aligned = FALSE
    /\ current_h = NoHeight
    /\ current_phase = "SEARCH"
    /\ last_detection_time = Never
    /\ pid = [ix |-> 0, iy |-> 0, px |-> 0, py |-> 0]
    /\ tick = NoTick

SafeLandNext ==
    \/ SafeLandCheck
    \/ SafeLandCommand
    \/ SafeLandFinalCheck
    \/ SafeLandHandleError
    \/ SafeLandTakeoff

SafeLandSpec == SafeLandInit /\ [][SafeLandNext]_vars

----------------------------------------------------------------------------
\* the control thread keeps being scheduled; the visualization thread may stall
\* at any point, for ever
StalledVisualSpec == SessionSpec /\ WF_vars(ControlNext)

Init == LandingInit \/ SessionInit \/ LawInit \/ SafeLandInit
Next == LandingNext \/ SessionNext \/ LawNext \/ SafeLandNext
Spec == Init /\ [][Next]_vars

----------------------------------------------------------------------------
\* Properties of the tracking session.

\* C1: every (frame, debug) pair the visualization thread passes to show() was
\* published together: it never combines the frame of one publish with the
\* debug map of another.
C1_ShownPairsPublishedTogether ==
    (shown # <<>> /\ shown[2] # 0) => shown[1] = shown[2]

\* run() is inside the tracking loop
InTrackingLoop ==
    spc \in {"t_head", "t_frame", "t_pub_frame", "t_pub_debug", "t_control", "t_stop"}
\* the mission timeout has elapsed
TimeoutElapsed == now - start_time > MissionTimeout

\* C2: every iteration of the tracking loop, also one skipped for want of a
\* frame, evaluates the stop condition before the next one begins; and once
\* the mission timeout has elapsed in the loop, landing_protocol.land() is
\* eventually invoked, whatever the availability of frames.
C2_TimeoutLeadsToLanding ==
    /\ [][(InTrackingLoop /\ spc # "t_head" /\ spc' = "t_head") => spc = "t_stop"]_vars
    /\ (InTrackingLoop /\ TimeoutElapsed) ~> (landings > 0)
----------------------------------------------------------------------------
\* Properties of the landing strategies.

\* the last actuator call of the last step raised
LastCallRaised == sent # <<>> /\ ~sent[Len(sent)].ok

\* C3: land() never lets an exception raised by an actuator call
\* (send_rc_control, move, land) escape to its caller, and whenever an actuator
\* call raised, a land() has been attempted by the time land() returns.
C3_NoActuatorExceptionEscapes ==
    /\ ~(Raised /\ LastCallRaised)
    /\ (Returned /\ calls.raised > 0) => calls.land > 0

\* C4: the finished attribute is true only after a land() command has been
\* sent to the actuator during the call.
C4_FinishedOnlyAfterLand == finished = "True" => calls.land > 0

\* C5: under every behaviour of the frame source, tracker, sensors and
\* actuator, land() ends (it returns or raises), and while one of the timed
\* loops runs (Multi-Layer's align loop, Continuous Glide's loop, Precision's
\* loop) the time since its start exceeds its timeout by at most one sleep.
InTimedLoop ==
    \/ lpc = "m_align_loop" /\ now - start_time > AlignTimeout + 1
    \/ lpc \in {"g_tick", "g_tof", "g_low_rc", "g_low_land"}
          /\ now - start_time > GlideTimeout + 1
    \/ lpc = "p_loop" /\ now - start_time > MaxLandingTime + 1
C5_LandTerminates == <>LandingOver /\ []~InTimedLoop

\* C5's case: Continuous Glide whose last iteration had no frame has left its
\* loop by the timeout and returned.
C5_Witness ==
    /\ strategy = "glide" /\ Returned
    /\ tick = NoTick
    /\ now - start_time > GlideTimeout
    /\ calls.land = 1

C7_LowAltitudeLandsDirectly ==
    [][ /\ (strategy = "multilayer" /\ lpc = "m_desc_height"
              /\ current_h'.known /\ current_h'.mm <= 10 * (layer_height + 15))
           => lpc' = "m_desc_land"
        /\ (strategy = "multilayer" /\ lpc = "m_desc_land")
           => (Len(sent') = 1 /\ sent'[1].op = "land" /\ calls'.move = calls.move)
        /\ (strategy = "multilayer" /\ sent' # <<>> /\ sent'[1].op = "move")
           => (~current_h.known \/ current_h.mm > 10 * (layer_height + 15))
      ]_vars

\* C7's case: the first layer's descend read a low altitude and landed
\* directly, without any move(down).
C7_Witness ==
    /\ strategy = "multilayer"
    /\ finished = "True" /\ layer = 1
    /\ sent = <<[op |-> "land", a |-> <<>>, ok |-> TRUE]>>
    /\ calls.move = 0

\* C8: once a descend sub-phase has landed directly and set finished, no align
\* or descend sub-phase of a later layer runs and no velocity command or
\* move(down) is sent: only the final land() follows.
C8_EarlyLandSkipsRemainingLayers ==
    (strategy = "multilayer" /\ finished = "True") =>
        /\ lpc \in {"m_final", "returned"}
        /\ \A i \in 1..Len(sent) : sent[i].op = "land"

\* C9: the precision phase never moves backwards in
\* SEARCH < ALIGN < APPROACH < TOUCHDOWN, except to SEARCH on a tick that
\* missed the target more than detection_timeout after the last detection.
C9_PhaseRegressesOnlyToSearch ==
    [][ strategy = "precision" =>
          \/ PhaseRank(current_phase') >= PhaseRank(current_phase)
          \/ /\ current_phase' = "SEARCH"
             /\ tick'.frame /\ ~tick'.found
             /\ last_detection_time.set
             /\ now - last_detection_time.t > DetectionTimeout
      ]_vars

\* C9's case: a miss has sent the phase back to SEARCH after a detection.
C9_Witness ==
    /\ strategy = "precision" /\ lpc = "p_loop"
    /\ current_phase = "SEARCH"
    /\ last_detection_time.set
    /\ tick.frame /\ ~tick.found

\* C10: on a Continuous Glide tick with a frame and the target not found, the
\* velocity command sent is the hover command (0, 0, 0, 0).
C10_LostTargetHovers ==
    (strategy = "glide" /\ tick.frame /\ ~tick.found /\ sent # <<>>
        /\ sent[1].op = "rc")
    => sent[1].a = <<0, 0, 0, 0>>

----------------------------------------------------------------------------
\* Properties of the control laws and of the glide speed.

\* the squared magnitude of the error of a glide-speed call
GlideSq(in) == in[1] * in[1] + in[2] * in[2]

C12_PidIntegralsWithinLimit ==
    law = "PID" =>
        /\ Abs(law_state.ix) <= 100 * integral_limit
        /\ Abs(law_state.iy) <= 100 * integral_limit

\* a call whose error would take the integral past the limit left it at the
\* limit, and a later call kept it there
C12_Witness ==
    /\ law = "PID"
    /\ law_calls >= 2
    /\ law_in[1] = -2000
    /\ law_state.ix = -100 * integral_limit
    /\ law_state.iy > 0 /\ law_state.iy < 100 * integral_limit

\* C13: for the Proportional, PI and PID laws, in any state reached by earlier
\* calls, compute_control returns four integers, the first two within
\* [-vmax, vmax] and the third and fourth 0; also for PI, whose integral is not
\* clamped.
C13_OutputsWithinVmax ==
    (law \in {"P", "PI", "PID"} /\ law_out # <<>>) =>
        /\ Len(law_out) = 4
        /\ \A i \in 1..4 : law_out[i] \in Int
        /\ -vmax <= law_out[1] /\ law_out[1] <= vmax
        /\ -vmax <= law_out[2] /\ law_out[2] <= vmax
        /\ law_out[3] = 0 /\ law_out[4] = 0

\* the PI integral has grown past the PID law's limit and the output is at the
\* speed limit
C13_Witness ==
    /\ law = "PI"
    /\ law_calls >= 2
    /\ law_state.ix < -100 * integral_limit
    /\ law_out = <<vmax, -vmax, 0, 0>>

\* C14: the first component compute_control returns is the clipped gain times
\* err_y and depends only on err_y, the second is the clipped gain times err_x
\* and depends only on err_x; for the Proportional law, and in the same order
\* for PI and PID (stated for the first call, when integral and previous error
\* are zero and the first component is a function of one error alone).
C14_FirstFromErrYSecondFromErrX ==
    /\ (law = "P" /\ law_out # <<>>) =>
          /\ law_out[1] = ProportionalAxis(law_in[2])
          /\ law_out[2] = ProportionalAxis(law_in[1])
    /\ (law = "PI" /\ law_calls = 1) =>
          /\ law_out[1] = PIAxis(law_in[2], PIIntegral(0, law_in[2], law_in[3]))
          /\ law_out[2] = PIAxis(law_in[1], PIIntegral(0, law_in[1], law_in[3]))
    /\ (law = "PID" /\ law_calls = 1) =>
          /\ law_out[1] = PIDControlAxis(law_in[2], AntiWindup(0, law_in[2], law_in[3]), 0, law_in[3])
          /\ law_out[2] = PIDControlAxis(law_in[1], AntiWindup(0, law_in[1], law_in[3]), 0, law_in[3])

----------------------------------------------------------------------------
\* Properties of the tracking tick and of the shutdown.

\* the velocity command a tick with a tracker result has to send
TickCommand == IF tick.found THEN compute_control(tick.error) ELSE <<0, 0, 0, 0>>

C16_PublishAfterDispatch ==
    [][(spc = "t_pub_frame" /\ pubs' # pubs)
          => (sent # <<>> /\ sent[1].op = "rc")]_vars

\* C17: at shutdown the actuator resources are released (stream off,
\* connection end) only after the visualization thread has been stopped and
\* joined: no release is made while that thread is still running.
C17_ReleaseOnlyAfterJoin ==
    [][(sent' # sent /\ sent' # <<>> /\ sent'[1].op = "streamoff")
          => ~IsAlive]_vars

\* C18: on every exit path of run(), also when land() raises, the actuator
\* cleanup (stream off, connection end) is performed before run() returns: the
\* finally block that ends run() is entered only by the step that makes the
\* cleanup calls.
C18_CleanupBeforeRunReturns ==
    [][(spc' = "r_finally" /\ spc # "r_finally")
          => (sent' # <<>> /\ sent'[1].op = "streamoff")]_vars

\* C19: a per-tick error does not end the tracking phase: when the tracker
\* raises while processing a frame the loop goes on with the next tick, and
\* the tracking loop is left for the landing only after quit or the mission
\* timeout cleared the running flag.
C19_TrackerErrorKeepsTracking ==
    [][(spc = "t_frame" /\ spc' # "t_frame") => spc' # "r_land"]_vars

\* the control thread is at one of the two assignments of a publish
Publishing == spc \in {"k_pub_frame", "k_pub_debug", "t_pub_frame", "t_pub_debug"}

\* C20: publishing a (frame, debug) pair never waits on the visualization
\* thread: in every state of the consumer the two assignments of a publish
\* are enabled, and with the consumer stalled for ever a publish still
\* completes: the take-off loop goes on to its next iteration and the tracking
\* tick to its control step.
C20_PublishNeverWaits ==
    /\ [](spc \in {"k_pub_frame", "t_pub_frame"} => ENABLED (pubs' = pubs + 1 /\ ControlNext))
    /\ [](spc \in {"k_pub_debug", "t_pub_debug"} => ENABLED (vt_debug' = pubs /\ ControlNext))
    /\ Publishing ~> (spc \in {"k_loop", "t_control"})

\* a publish completed while the consumer was in the middle of show()
C20_Witness ==
    /\ spc = "t_control"
    /\ vpc = "v_show_debug"
    /\ pubs >= 2 /\ vt_frame = pubs /\ vt_debug = pubs

\* C21: the control thread never performs a display operation and never reads
\* the visual protocol's frame buffer: no tick of the tracking loop has shown
\* a frame from the control thread.
C21_ControlThreadNeverDisplays == ~displayed

----------------------------------------------------------------------------
\* Properties of the landing strategies' phases and loops.

\* a step of the Precision loop that handled a detection
DetectionStep ==
    /\ strategy = "precision" /\ lpc = "p_loop"
    /\ tick'.frame /\ tick'.found
    /\ last_detection_time' = At(now)
    /\ now' # now \/ lpc' = "p_except"

\* C22: a detection tick of Precision landing advances the phase by at most
\* one step, and only under the step's guard: ALIGN to APPROACH only with
\* |error_x|, |error_y| below position_threshold and |yaw_error| below
\* alignment_threshold, APPROACH to TOUCHDOWN only with area_percentage >=
\* target_area_percentage and distance <= min_distance; SEARCH goes to ALIGN
\* on any detection.  So no tick that started in SEARCH or ALIGN calls land()
\* without an exception.
C22_PhaseAdvancesOneGuardedStep ==
    [][DetectionStep =>
         LET e == Unpack(tick'.error)
             from == current_phase
             to == current_phase'
         IN  /\ PhaseRank(to) - PhaseRank(from) \in {0, 1}
             /\ from = "SEARCH" => to = "ALIGN"
             /\ (from = "ALIGN" /\ to = "APPROACH") =>
                   /\ Abs(e[1]) < position_threshold
                   /\ Abs(e[2]) < position_threshold
                   /\ Abs(e[3]) < alignment_threshold
             /\ (from = "APPROACH" /\ to = "TOUCHDOWN") =>
                   /\ e[5] >= target_area_percentage
                   /\ e[4] <= min_distance
             /\ (\E i \in 1..Len(sent') : sent'[i].op = "land") =>
                   (from = "APPROACH" /\ to = "TOUCHDOWN")]_vars

\* the touchdown was reached and its land() was sent
C22_Witness ==
    /\ strategy = "precision" /\ lpc = "p_loop"
    /\ current_phase = "TOUCHDOWN"
    /\ tick.found /\ tick.error = <<0, 0, 0, 20, 15>>
    /\ sent = <<Land(TRUE)>>
    /\ finished = "True"

\* the last step sent a velocity command
SentVelocity == \E i \in 1..Len(sent) : sent[i].op = "rc"

\* C23: in a run of Precision land() in which no call raises, land() is sent
\* exactly once, by TOUCHDOWN or by the emergency path after the loop;
\* finished is False before that land() and True after it, and no velocity
\* command follows it.
C23_PrecisionLandsExactlyOnce ==
    /\ []((strategy = "precision" /\ calls.raised = 0) =>
            /\ calls.land <= 1
            /\ calls.land = 0 => finished # "True"
            /\ calls.land = 1 => (finished = "True" /\ ~SentVelocity)
            /\ Returned => calls.land = 1)
    /\ [][(strategy = "precision" /\ calls'.raised = 0 /\ calls'.land > calls.land)
             => (finished = "False" /\ finished' = "True")]_vars

\* the loop ended by max_landing_time without TOUCHDOWN and the emergency
\* land() was sent
C23_Witness ==
    /\ strategy = "precision" /\ Returned
    /\ calls.raised = 0 /\ calls.land = 1 /\ calls.rc > 0
    /\ current_phase # "TOUCHDOWN"
    /\ now - start_time >= MaxLandingTime
    /\ finished = "True"

\* C24: on an ALIGN tick of Precision landing the velocity set-point left on
\* the actuator at the end of the tick, the last send_rc_control of the tick,
\* carries the control law's lateral and longitudinal values together with
\* the yaw value.
C24_AlignSetpointHasPositionAndYaw ==
    [][(DetectionStep /\ current_phase' = "ALIGN" /\ lpc' = "p_loop") =>
         LET e == Unpack(tick'.error)
             pos_cmd == PidOutput(pid, e[1], e[2])
             last == sent'[Len(sent')]
         IN  /\ last.op = "rc"
             /\ last.a = <<pos_cmd[2], pos_cmd[1], 0, YawCommand(e[3])>>]_vars

\* ------------------------------------------------------------------------
\* Properties of the multi-layer and glide landings
\* ------------------------------------------------------------------------

\* a step in which _align_on_pad returns: the descend sub-phase comes next
AlignReturns == strategy = "multilayer" /\ lpc \in {"m_align", "m_align_loop"} /\ lpc' = "m_desc_rc"

\* C25: a layer's align sub-phase reports aligned only when the tracker's
\* most recent processed frames, aligned_frames_needed of them, were all
\* detections within align_threshold; a miss, a tracker error or a frame out
\* of the threshold resets the count to zero; when align_timeout elapses
\* first it reports not aligned; the descend sub-phase is executed either way
C25_AlignedOnlyAfterConsecutiveFrames ==
    [][/\ (AlignReturns /\ aligned')
            => /\ tick'.frame /\ tick'.found /\ WithinAlignThreshold(tick'.error)
               /\ aligned_count' >= AlignedFramesNeeded
               /\ aligned_count' = aligned_count + 1
       /\ (strategy = "multilayer" /\ lpc = "m_align_loop" /\ tick'.frame
             /\ lpc' # "raised" /\ ~(tick'.found /\ WithinAlignThreshold(tick'.error)))
            => aligned_count' = 0
       /\ (strategy = "multilayer" /\ lpc = "m_align_loop"
             /\ ~(now - start_time < AlignTimeout))
            => ~aligned' /\ lpc' = "m_desc_rc"]_vars

\* the exit of the glide loop has begun: a TOF read at or below
\* height_threshold, or the timeout, was seen in this tick
GlideExiting == strategy = "glide" /\ lpc \in {"g_low_rc", "g_low_land", "g_to_rc", "g_to_land"}

\* the last step sent a velocity command with a vertical component
SentVertical == \E i \in 1..Len(sent) : sent[i].op = "rc" /\ sent[i].a[3] # 0

\* C26: Continuous Glide leaves its loop on the first tick whose TOF read is
\* <= height_threshold or whose elapsed time exceeds timeout: on that tick it
\* sends zero velocity, then land(), sets finished, and no velocity command
\* with a vertical component is sent afterwards
C26_GlideExitsOnFirstLowOrLateTick ==
    /\ [][GlideExiting =>
            /\ lpc \in {"g_low_rc", "g_to_rc"}
                 => sent' = <<Hover(sent'[1].ok)>> /\ lpc' \in {"g_low_land", "g_to_land"}
            /\ lpc \in {"g_low_land", "g_to_land"}
                 => /\ sent' = <<Land(sent'[1].ok)>>
                    /\ finished' = "True" /\ lpc' = "returned"]_vars
    /\ [][(strategy = "glide" /\ lpc = "g_timeout" /\ now - start_time > GlideTimeout)
            => lpc' = "g_to_rc"]_vars
    /\ []((strategy = "glide" /\ calls.land > 0) => ~SentVertical)

\* ------------------------------------------------------------------------
\* Properties of the end of the session
\* ------------------------------------------------------------------------

\* C27: while the landing strategy is executing and finished is still false
\* the orchestrator keeps publishing: with frames available and the
\* visualization thread alive, at least one publish occurs between the start
\* of a landing that takes more than one tick and the moment finished
\* becomes true
C27_PublishesWhileLanding ==
    [][(spc = "r_land" /\ stream_on /\ IsAlive
          /\ now' - now > 1 /\ finished' = "True")
         => pubs' > pubs]_vars

\* C28: a frame published while the visualization thread is busy showing an
\* earlier frame is not lost: the consumer clears the slot only of the frame
\* it has just shown, so an empty slot means that the most recently
\* published frame was passed to show()
C28_PublishedFrameNotLost ==
    (pubs > 0 /\ vt_frame = 0) => (shown # <<>> /\ shown[1] = pubs)

\* run() is over: _land_and_cleanup has returned
RunReturned == spc \in {"r_done", "exit"}

\* C29: once run() has entered its takeoff step, the landing strategy's
\* land() is invoked exactly once before run() returns, however the flight
\* ends (quit, mission timeout, an exception during takeoff or stabilization,
\* an exception in a tracking tick), and no velocity command of the tracking
\* loop is sent after land() has been invoked
C29_LandsExactlyOnceOnEveryEnding ==
    /\ [](landings <= 1)
    /\ [](RunReturned => landings = 1)
    /\ []((landings > 0) => (~SentVelocity /\ ~InTrackingLoop))
    /\ [][(landings > 0) => ~(spc' = "t_control" \/ SentVelocity')]_vars

\* a flight whose tracking loop sent velocity commands and was ended by an
\* exception has returned from run() after one land()
C29_Witness ==
    /\ RunReturned /\ landings = 1
    /\ calls.rc > 0 /\ calls.raised > 0

\* ------------------------------------------------------------------------
\* Properties of safe_land
\* ------------------------------------------------------------------------

\* C30: safe_land always terminates: whatever the drone does, land() raising
\* on every attempt while the drone stays connected, charged and flying
\* included, it stops retrying before the stack of recursive calls is
\* exhausted and what it gives back is a boolean
C30_SafeLandReturnsBoolean ==
    /\ slpc = "sl_done" => sl_result \in {"True", "False"}
    /\ sl_result # "RecursionError"

====
